---- MODULE Spec2Model ----
(***************************************************************************)
(* A model of filehider (src/src/main.rs): the command-line orchestration  *)
(* of main, the matcher should_hide_file with the filter sets built by     *)
(* setup, the watch loop of watch_mode with its event classification and   *)
(* its error counter, the rename-based hide_file on a file system, and the *)
(* directory walk of immediate_mode.                                       *)
(*                                                                         *)
(* Seven specifications share the variables:                               *)
(*   SpecMain   main from argument parsing to exit or to the watch loop    *)
(*   SpecMatch  setup's filter sets and should_hide_file on bounded paths  *)
(*   SpecWatch  the loop of watch_mode, one action per iteration           *)
(*   SpecBurst  the same loop, observed through the burst history          *)
(*   SpecHide   hide_file called once and again on a directory's entries   *)
(*   SpecRun    the immediate scan, then the watch loop, on a file system  *)
(*   SpecFeed   the watch loop fed with the events of its own renames      *)
(***************************************************************************)
EXTENDS Integers, Sequences, FiniteSets, TLC

VARIABLES
    args,           \* the parsed command line (struct Args)
    pc,             \* position in main / watch_mode
    trace,          \* main: the processing steps taken so far, in order
    conf,           \* the filter sets returned by setup, or NotSetUp
    path,           \* should_hide_file: the path last checked, or NoPath
    result,         \* should_hide_file: its Result<bool> for that path
    error_counter,  \* watch_mode: let mut error_counter
    elapsed,        \* watch_mode: timer.elapsed(), in ticks
    last,           \* history: what the last loop iteration received and did
    burst,          \* history: the errors of the current 2-second burst
    fs,             \* the file system below the parent of the watch root
    todo,           \* immediate_mode: what the directory walker has yet to yield
    seen,           \* history: what the scan and handle_path have done
    queue           \* watch_mode: the events sent to rx and not yet received

vars == <<args, pc, trace, conf, path, result, error_counter, elapsed, last, burst, fs, todo, seen, queue>>

\* The variables of the file system and the directory walk.
fsvars == <<fs, todo, seen, queue>>

----------------------------------------------------------------------------
(* Bounds of the model.                                                    *)

\* Longest file name, in characters.
MaxLen == 3
\* Longest extension filter, in characters.
MaxExtLen == 1
\* Most paths a notification event carries.
MaxPaths == 2
\* Clock ticks per second: the clock is finer than Duration::as_secs.
TicksPerSec == 2
\* Longest time, in seconds, the model lets the error window grow.
MaxWindowSecs == 7
\* Most directories on the command line.
MaxRoots == 2
\* Most changes others make below the watch root.
MaxExternal == 2

(* Program constants.                                                      *)
ERROR_LIMIT == 20
ERROR_TIME_LIMIT == 5
\* The literal 5 of the else-if branch (line 319).
RESET_AFTER_SECS == 5

----------------------------------------------------------------------------
(* Strings: a string is a sequence of characters.                          *)

Char == {"a", "A", "."}
\* A byte that is not valid UTF-8: OsStr::to_str fails on a name holding it.
BadByte == "#"

\* char::to_lowercase
LowerChar(c) == IF c = "A" THEN "a" ELSE c

\* str::to_lowercase
to_lowercase(s) == [i \in DOMAIN s |-> LowerChar(s[i])]

StringsUpTo(n) == UNION {[1..k -> Char] : k \in 0..n}

\* The names a directory entry can have: not empty, not "." or "..".
Names == StringsUpTo(MaxLen) \ {<<>>, <<".">>, <<".", ".">>}

\* Path::file_name of a path ending in "..", or of "/": None.
NoFileName == <<>>
\* A name that is not valid Unicode.
NonUtf8Name == <<BadByte>>

\* Option::None, as a value no string equals.
None == <<"None">>

\* OsStr::to_str
to_str(s) == IF \E i \in DOMAIN s : s[i] = BadByte THEN None ELSE s

\* The index of the last '.' of s, 0 when it has none.
LastDot(s) ==
    IF \E i \in DOMAIN s : s[i] = "."
    THEN CHOOSE i \in DOMAIN s : s[i] = "." /\ \A j \in DOMAIN s : s[j] = "." => j <= i
    ELSE 0

\* Path::extension of a path whose file name is s: the part after the last
\* dot; None without a dot, or when the only dot leads the name.
extension(s) ==
    IF LastDot(s) <= 1 THEN None
    ELSE SubSeq(s, LastDot(s) + 1, Len(s))

----------------------------------------------------------------------------
(* Paths and the matcher.                                                  *)

\* What fs::metadata finds at a path: a file, a directory, another kind of
\* entry, or an error (the path is gone, or may not be read).
Kinds == {"file", "dir", "other", "missing"}

Paths == [kind : Kinds, name : Names \cup {NoFileName, NonUtf8Name}]

NoPath == [kind |-> "none", name |-> <<>>]

\* Result<bool>
Ok(b) == [ok |-> TRUE, val |-> b, err |-> ""]
Err(e) == [ok |-> FALSE, val |-> FALSE, err |-> e]
NoResult == [ok |-> FALSE, val |-> FALSE, err |-> "none"]

NotSetUp == [file_names |-> {}, file_extensions |-> {}, done |-> FALSE]

\* The mapping of one filter in setup (lines 477-483 and 490-496).
FoldFilter(f, case_sensitive) ==
    IF case_sensitive THEN to_lowercase(f) ELSE f

\* setup: the two filter sets (the directories are checked in SetupStep).
setup(file_names, file_extensions, case_sensitive) ==
    [file_names      |-> {FoldFilter(f, case_sensitive) : f \in file_names},
     file_extensions |-> {FoldFilter(f, case_sensitive) : f \in file_extensions},
     done            |-> TRUE]

\* The file branch with a missing extension read as "no match".
FileBranch_NoExtFalse(p, file_names, file_extensions, case_sensitive) ==
    IF p.name = NoFileName THEN Err("file_name")
    ELSE IF to_str(p.name) = None THEN Err("to_str")
    ELSE IF p.name \in file_names THEN Ok(TRUE)
    ELSE IF extension(p.name) = None THEN Ok(FALSE)
    ELSE IF case_sensitive
         THEN Ok(extension(p.name) \in file_extensions)
         ELSE Ok(to_lowercase(extension(p.name)) \in file_extensions)

\* The file branch of should_hide_file (lines 521-558).
FileBranch(p, file_names, file_extensions, case_sensitive) ==
    IF p.name = NoFileName THEN Err("file_name")
    ELSE IF to_str(p.name) = None THEN Err("to_str")
    ELSE IF p.name \in file_names THEN Ok(TRUE)
    ELSE IF extension(p.name) = None THEN Err("extension")
    ELSE IF case_sensitive
         THEN Ok(extension(p.name) \in file_extensions)
         ELSE Ok(to_lowercase(extension(p.name)) \in file_extensions)

\* The directory branch of should_hide_file (lines 559-577).
DirBranch(p, file_names, case_sensitive) ==
    IF p.name = NoFileName THEN Err("file_name")
    ELSE IF to_str(p.name) = None THEN Err("to_str")
    ELSE IF case_sensitive
         THEN Ok(p.name \in file_names)
         ELSE Ok(to_lowercase(p.name) \in file_names)

\* The first rule of should_hide_file (lines 511-514).
BothEmpty(file_names, file_extensions) ==
    file_names = {} /\ file_extensions = {}

\* should_hide_file with the kind of the entry examined before the filters:
\* the first rule no longer covers every path.
should_hide_file_KindFirst(p, file_names, file_extensions, case_sensitive, hide_files, hide_directories) ==
    IF p.kind = "missing" THEN Err("metadata")
    ELSE IF p.kind = "file" /\ hide_files
         THEN IF BothEmpty(file_names, file_extensions) THEN Ok(TRUE)
              ELSE FileBranch(p, file_names, file_extensions, case_sensitive)
    ELSE IF p.kind = "dir" /\ hide_directories
         THEN IF BothEmpty(file_names, file_extensions) THEN Ok(TRUE)
              ELSE DirBranch(p, file_names, case_sensitive)
    ELSE Ok(FALSE)

\* should_hide_file with directories sent through the file branch, so that
\* a directory is also matched by its extension.
should_hide_file_DirsByExt(p, file_names, file_extensions, case_sensitive, hide_files, hide_directories) ==
    IF BothEmpty(file_names, file_extensions) THEN Ok(TRUE)
    ELSE IF p.kind = "missing" THEN Err("metadata")
    ELSE IF p.kind = "file" /\ hide_files
         THEN FileBranch(p, file_names, file_extensions, case_sensitive)
    ELSE IF p.kind = "dir" /\ hide_directories
         THEN FileBranch(p, file_names, file_extensions, case_sensitive)
    ELSE Ok(FALSE)

\* should_hide_file (lines 503-581).
should_hide_file(p, file_names, file_extensions, case_sensitive, hide_files, hide_directories) ==
    IF BothEmpty(file_names, file_extensions) THEN Ok(TRUE)
    ELSE IF p.kind = "missing" THEN Err("metadata")
    ELSE IF p.kind = "file" /\ hide_files
         THEN FileBranch(p, file_names, file_extensions, case_sensitive)
    ELSE IF p.kind = "dir" /\ hide_directories
         THEN DirBranch(p, file_names, case_sensitive)
    ELSE Ok(FALSE)

----------------------------------------------------------------------------
(* The command line.                                                       *)

\* What a directory argument names: a directory, something that is not a
\* directory, nothing, or a path whose existence cannot be determined.
RootStates == {"dir", "file", "missing", "unreadable"}

\* The directory arguments: at least one (required = true, line 17).
RootLists == UNION {[1..n -> RootStates] : n \in 1..MaxRoots}

\* setup's closure over one directory (lines 451-471).
check_directory(d) ==
    IF d = "unreadable" THEN Err("try_exists")
    ELSE IF d = "missing" THEN Err("does not exist")
    ELSE IF d = "dir" THEN Ok(TRUE)
    ELSE Err("not a directory")

\* The validation looking at the first directory only.
validate_directories_FirstOnly(directories) == check_directory(directories[1])

\* setup, lines 449-472: collect::<Result<..>>()? returns the error of the
\* first directory that fails the check, and Ok when none does.
validate_directories(directories) ==
    LET bad == {i \in DOMAIN directories : ~check_directory(directories[i]).ok}
    IN  IF bad = {} THEN Ok(TRUE)
        ELSE check_directory(directories[CHOOSE i \in bad : \A j \in bad : i <= j])

\* A filter list of the command line, as a set: empty or one value.
AtMostOne(S) == {{}} \cup {{x} : x \in S}

NameFilterValues == Names
ExtFilterValues == StringsUpTo(MaxExtLen) \ {<<>>}

\* The history variables of the watch loop, while unused.
NoLast == [kind |-> "none", npaths |-> 0, handled |-> 0, res |-> "none",
           count_before |-> 0, count_at_check |-> 0, at_check |-> 0]
NoBurst == [n |-> 0, age |-> 0]

\* The values of fs and seen where no file system is modelled.
NoFs == {}
NoCall == [path |-> <<>>, matched |-> FALSE, said |-> FALSE, hid |-> FALSE, ok |-> TRUE]
NoSeen == [fs0 |-> {}, fs1 |-> {}, produced |-> {}, evaluated |-> {}, failed |-> FALSE, after_failure |-> FALSE, call |-> NoCall, arrivals |-> 0, renamed |-> {}, again |-> FALSE, own_moved |-> FALSE, quiet_moved |-> FALSE]

----------------------------------------------------------------------------
(* SpecMatch: setup's filter sets, then should_hide_file on any path.      *)

ArgsMatch ==
    [directories      : {<<"dir">>},
     file_names       : AtMostOne(NameFilterValues),
     file_extensions  : AtMostOne(ExtFilterValues),
     recursive        : {FALSE},
     case_sensitive   : BOOLEAN,
     test_mode        : {TRUE},
     watch            : {TRUE},
     immediate        : {FALSE},
     hide_files       : BOOLEAN,
     hide_directories : BOOLEAN]

InitMatch ==
    /\ args \in ArgsMatch
    /\ pc = "match_start"
    /\ trace = <<>>
    /\ conf = NotSetUp
    /\ path = NoPath
    /\ result = NoResult
    /\ error_counter = 0
    /\ elapsed = 0
    /\ last = NoLast
    /\ burst = NoBurst
    /\ fs = NoFs
    /\ todo = {}
    /\ seen = NoSeen
    /\ queue = <<>>

\* main, lines 78-83: the filter sets are built once.
MatchSetup ==
    /\ pc = "match_start"
    /\ conf' = setup(args.file_names, args.file_extensions, args.case_sensitive)
    /\ pc' = "match_ready"
    /\ UNCHANGED <<args, trace, path, result, error_counter, elapsed, last, burst>>
    /\ UNCHANGED fsvars

\* handle_path, lines 336-343: the matcher is asked about one path.
MatchCheck ==
    /\ pc = "match_ready"
    /\ \E p \in Paths :
          /\ path' = p
          /\ result' = should_hide_file(p, conf.file_names, conf.file_extensions,
                                        args.case_sensitive, args.hide_files,
                                        args.hide_directories)
    /\ pc' = "match_done"
    /\ UNCHANGED <<args, trace, conf, error_counter, elapsed, last, burst>>
    /\ UNCHANGED fsvars

NextMatch == MatchSetup \/ MatchCheck

SpecMatch == InitMatch /\ [][NextMatch]_vars

----------------------------------------------------------------------------
(* SpecMain: main, from the parsed arguments to exit or to the watch loop. *)

ArgsMain ==
    [directories      : RootLists,
     file_names       : {{}, {<<"a">>}},
     file_extensions  : {{}},
     recursive        : BOOLEAN,
     case_sensitive   : BOOLEAN,
     test_mode        : BOOLEAN,
     watch            : BOOLEAN,
     immediate        : BOOLEAN,
     hide_files       : BOOLEAN,
     hide_directories : BOOLEAN]

InitMain ==
    /\ args \in ArgsMain
    /\ pc = "main_setup"
    /\ trace = <<>>
    /\ conf = NotSetUp
    /\ path = NoPath
    /\ result = NoResult
    /\ error_counter = 0
    /\ elapsed = 0
    /\ last = NoLast
    /\ burst = NoBurst
    /\ fs = NoFs
    /\ todo = {}
    /\ seen = NoSeen
    /\ queue = <<>>

\* The guard of the mode check (line 99).
ModesRejected(watch, immediate) == ~watch /\ immediate

\* The guard of the immediate scan (line 105).
RunsImmediate(immediate) == ~immediate

\* main, lines 78-83: setup validates the directories and builds the
\* filter sets; its error ends main.
MainSetup ==
    /\ pc = "main_setup"
    /\ IF validate_directories(args.directories).ok
       THEN /\ conf' = setup(args.file_names, args.file_extensions, args.case_sensitive)
            /\ trace' = Append(trace, "setup")
            /\ pc' = "main_modes"
       ELSE /\ conf' = conf
            /\ trace' = Append(trace, "setup_error")
            /\ pc' = "exit_err"
    /\ UNCHANGED <<args, path, result, error_counter, elapsed, last, burst>>
    /\ UNCHANGED fsvars

\* main, lines 98-101: the mode check.
MainCheckModes ==
    /\ pc = "main_modes"
    /\ IF ModesRejected(args.watch, args.immediate)
       THEN /\ trace' = Append(trace, "modes_error")
            /\ pc' = "exit_err"
       ELSE /\ trace' = trace
            /\ pc' = "main_immediate"
    /\ UNCHANGED <<args, conf, path, result, error_counter, elapsed, last, burst>>
    /\ UNCHANGED fsvars

\* main, lines 103-119: immediate_mode runs to completion (it returns
\* nothing: its per-entry errors are printed and dropped).
MainImmediate ==
    /\ pc = "main_immediate"
    /\ IF RunsImmediate(args.immediate)
       THEN trace' = Append(trace, "immediate_mode")
       ELSE trace' = trace
    /\ pc' = "main_watch"
    /\ UNCHANGED <<args, conf, path, result, error_counter, elapsed, last, burst>>
    /\ UNCHANGED fsvars

\* main, lines 121-139, and watch_mode, lines 214-238: without the watch
\* flag main returns Ok; with it the watcher is created, the directories are
\* registered (either may fail, which ends main with the error), and the
\* loop starts with a zero counter and a fresh timer.
MainWatch ==
    /\ pc = "main_watch"
    /\ IF args.watch
       THEN \E registered \in BOOLEAN :
              IF registered
              THEN /\ trace' = Append(trace, "watch_mode")
                   /\ pc' = "watch_loop"
              ELSE /\ trace' = Append(trace, "watch_error")
                   /\ pc' = "exit_err"
       ELSE /\ trace' = trace
            /\ pc' = "exit_ok"
    /\ error_counter' = 0
    /\ elapsed' = 0
    /\ UNCHANGED <<args, conf, path, result, last, burst>>
    /\ UNCHANGED fsvars

NextMain == MainSetup \/ MainCheckModes \/ MainImmediate \/ MainWatch

SpecMain == InitMain /\ [][NextMain]_vars

----------------------------------------------------------------------------
(* The watch loop of watch_mode (lines 240-323).                           *)

\* notify::EventKind, with ModifyKind and RenameMode spelled out.
RenameKinds ==
    {"Modify(Name(Any))", "Modify(Name(To))", "Modify(Name(From))",
     "Modify(Name(Both))", "Modify(Name(Other))"}

EventKinds ==
    {"Any", "Access", "Create", "Modify(Any)", "Modify(Data)",
     "Modify(Metadata)", "Modify(Other)", "Remove", "Other"} \cup RenameKinds

\* What recv delivers: Ok(event), an event kind with its paths, or
\* Err(error) from the watcher. The paths of an event are named by their
\* position in event.paths, 1 the first.
Received ==
    [kind : EventKinds, npaths : 0..MaxPaths] \cup {[kind |-> "Err", npaths |-> 0]}

\* matches!(event.kind, EventKind::Create(_)), line 245
IsCreate(ev) == ev.kind = "Create"

\* The guard of the second arm, lines 266-272.
IsRenameNotFrom(ev) ==
    ev.kind \in RenameKinds /\ ev.kind # "Modify(Name(From))"

\* The second arm with the first path taken whenever there is one.
relevant_path_First(ev) ==
    IF IsCreate(ev) \/ IsRenameNotFrom(ev)
    THEN (IF ev.npaths >= 1 THEN 1 ELSE 0)
    ELSE 0

\* The position of the path handed to handle_path, 0 when none is:
\* paths.get(0) of a create event (line 247); paths.get(1), else
\* paths.get(0), of a rename event (lines 276 and 289).
relevant_path(ev) ==
    IF IsCreate(ev) THEN (IF ev.npaths >= 1 THEN 1 ELSE 0)
    ELSE IF IsRenameNotFrom(ev)
         THEN (IF ev.npaths >= 2 THEN 2 ELSE IF ev.npaths >= 1 THEN 1 ELSE 0)
    ELSE 0

\* What handle_path can return for the path of an event: Ok, or the error
\* of the matcher or of the hide (the file system decides).
HandleResults(ev) ==
    IF ev.kind # "Err" /\ relevant_path(ev) # 0 THEN {"ok", "err"} ELSE {"none"}

\* The match block without the two "No path in event!" branches.
CountsError_NoPathIgnored(ev, res) ==
    \/ ev.kind = "Err"
    \/ /\ IsCreate(ev) \/ IsRenameNotFrom(ev)
       /\ relevant_path(ev) # 0
       /\ res = "err"

\* Whether the match block executes error_counter += 1 (lines 258, 262,
\* 287, 300, 304, 310).
CountsError(ev, res) ==
    \/ ev.kind = "Err"
    \/ /\ IsCreate(ev) \/ IsRenameNotFrom(ev)
       /\ \/ relevant_path(ev) = 0
          \/ res = "err"

\* Duration::as_secs: whole seconds, the fraction dropped.
as_secs(ticks) == ticks \div TicksPerSec

MaxTicks == MaxWindowSecs * TicksPerSec

\* The exit guard with > for >=.
Trips_Above(count, e) == count > ERROR_LIMIT /\ as_secs(e) <= ERROR_TIME_LIMIT

\* The guard of the exit, line 315.
Trips(count, e) == count >= ERROR_LIMIT /\ as_secs(e) <= ERROR_TIME_LIMIT

\* The reset guard with >= for >.
Resets_AtLimit(e) == as_secs(e) >= RESET_AFTER_SECS

\* The guard of the reset, line 319 (reached when line 315 is false).
Resets(e) == as_secs(e) > RESET_AFTER_SECS

\* One iteration, lines 241-322: recv delivers ev, the match block runs
\* handle_path with result res and counts an error, then the counter and
\* the timer are examined. elapsed is the reading of timer.elapsed() (when
\* line 315 reads the timer and does not exit, line 319 reads it again: no
\* earlier, so with the same outcome); a reset restarts the timer.
Iterate(ev, res) ==
    LET count == error_counter + (IF CountsError(ev, res) THEN 1 ELSE 0)
    IN  /\ pc = "watch_loop"
        /\ IF Trips(count, elapsed)
           THEN /\ pc' = "tripped"
                /\ error_counter' = count
                /\ elapsed' = elapsed
           ELSE IF Resets(elapsed)
           THEN /\ pc' = pc
                /\ error_counter' = 0
                /\ elapsed' = 0
           ELSE /\ pc' = pc
                /\ error_counter' = count
                /\ elapsed' = elapsed

\* What the iteration received and did, for the claims.
Observed(ev, res) ==
    [kind           |-> ev.kind,
     npaths         |-> ev.npaths,
     handled        |-> IF ev.kind = "Err" THEN 0 ELSE relevant_path(ev),
     res            |-> res,
     count_before   |-> error_counter,
     count_at_check |-> error_counter + (IF CountsError(ev, res) THEN 1 ELSE 0),
     at_check       |-> elapsed]

\* The errors of the current burst: n errors, the first of them age ticks
\* ago; a burst lasts at most two seconds.
BurstTicks == 2 * TicksPerSec

BurstAfter(ev, res) ==
    IF CountsError(ev, res)
    THEN IF burst.n = 0 \/ burst.age > BurstTicks
         THEN [n |-> 1, age |-> 0]
         ELSE [n |-> IF burst.n < ERROR_LIMIT THEN burst.n + 1 ELSE burst.n,
               age |-> burst.age]
    ELSE IF burst.n = 0 \/ burst.age > BurstTicks
         THEN NoBurst
         ELSE burst

InitWatch ==
    /\ args \in {a \in ArgsMain : a.directories = <<"dir">> /\ a.watch /\ ~a.immediate
                                  /\ a.file_names = {} /\ a.recursive
                                  /\ a.case_sensitive /\ a.hide_files
                                  /\ a.hide_directories /\ ~a.test_mode}
    /\ pc = "watch_loop"
    /\ trace = <<"setup", "watch_mode">>
    /\ conf = setup({}, {}, TRUE)
    /\ path = NoPath
    /\ result = NoResult
    /\ error_counter = 0
    /\ elapsed = 0
    /\ last = NoLast
    /\ burst = NoBurst
    /\ fs = NoFs
    /\ todo = {}
    /\ seen = NoSeen
    /\ queue = <<>>

WatchIteration ==
    \E ev \in Received :
      \E res \in HandleResults(ev) :
        /\ Iterate(ev, res)
        /\ last' = Observed(ev, res)
        /\ UNCHANGED <<args, trace, conf, path, result, burst>>
        /\ UNCHANGED fsvars

BurstIteration ==
    \E ev \in Received :
      \E res \in HandleResults(ev) :
        /\ Iterate(ev, res)
        /\ burst' = BurstAfter(ev, res)
        /\ UNCHANGED <<args, trace, conf, path, result, last>>
        /\ UNCHANGED fsvars

\* The clock advances by one tick while recv blocks (line 241). The last
\* iteration is then no longer the one that has just ended.
Tick ==
    /\ pc = "watch_loop"
    /\ elapsed < MaxTicks
    /\ elapsed' = elapsed + 1
    /\ last' = NoLast
    /\ UNCHANGED <<args, pc, trace, conf, path, result, error_counter, burst>>
    /\ UNCHANGED fsvars

BurstTick ==
    /\ pc = "watch_loop"
    /\ elapsed < MaxTicks
    /\ elapsed' = elapsed + 1
    /\ burst' = IF burst.n = 0 \/ burst.age > BurstTicks
                THEN NoBurst
                ELSE [n |-> burst.n, age |-> burst.age + 1]
    /\ UNCHANGED <<args, pc, trace, conf, path, result, error_counter, last>>
    /\ UNCHANGED fsvars

\* rx.recv() fails (line 241): the channel is closed, watch_mode returns
\* the error.
ChannelBroken ==
    /\ pc = "watch_loop"
    /\ pc' = "channel_broken"
    /\ UNCHANGED <<args, trace, conf, path, result, error_counter, elapsed, last, burst>>
    /\ UNCHANGED fsvars

NextWatch == WatchIteration \/ Tick \/ ChannelBroken

SpecWatch == InitWatch /\ [][NextWatch]_vars

NextBurst == BurstIteration \/ BurstTick \/ ChannelBroken

SpecBurst == InitWatch /\ [][NextBurst]_vars

----------------------------------------------------------------------------
(* The file system, the rename-based hide_file, and handle_path.           *)
(*                                                                         *)
(* A path is the sequence of its components, the first of them the watch   *)
(* root as given on the command line. The file system is a set of entries  *)
(* [path, kind, orig]: orig, the path the entry had at the start, tells an  *)
(* entry from another one that comes to bear its name.                     *)

\* The component names: the watch root, an entry, the name hide_file gives
\* that entry, and an entry with a different name.
RootName == <<"a">>
Plain == <<"a">>
Dotted == <<".", "a">>
Other == <<"A">>

\* The watch root.
Root == <<RootName>>

\* The entry Plain of the directory Root, and the name hide_file gives it.
PlainPath == Append(Root, Plain)
DottedPath == Append(Root, Dotted)

\* Path::file_name and Path::parent.
FileName(p) == p[Len(p)]
Parent(p) == SubSeq(p, 1, Len(p) - 1)

IsPrefix(p, q) == Len(p) <= Len(q) /\ SubSeq(q, 1, Len(p)) = p

\* The entry at path p (none or one), the entries below p, the entries of
\* the directory p.
At(tree, p) == {n \in tree : n.path = p}
Below(tree, p) == {n \in tree : Len(n.path) > Len(p) /\ IsPrefix(p, n.path)}
Children(tree, p) == {n \in Below(tree, p) : Len(n.path) = Len(p) + 1}

\* What fs::metadata finds at p (line 517).
KindAt(tree, p) ==
    IF At(tree, p) = {} THEN "missing" ELSE (CHOOSE n \in At(tree, p) : TRUE).kind

\* The entry at from and all below it, with from replaced by to.
Moved(tree, from, to) ==
    {[n EXCEPT !.path = to \o SubSeq(n.path, Len(from) + 1, Len(n.path))] :
        n \in At(tree, from) \cup Below(tree, from)}

\* fs::rename (line 432): fails when from does not exist; replaces a file
\* by a file and an empty directory by a directory; fails when to is a
\* directory and from is not, when to is not a directory and from is, and
\* when to is a directory that is not empty.
rename(tree, from, to) ==
    LET src == KindAt(tree, from)
        dst == KindAt(tree, to)
    IN  IF src = "missing" THEN [ok |-> FALSE, fs |-> tree]
        ELSE IF \/ dst = "missing"
                \/ src = "file" /\ dst = "file"
                \/ src = "dir" /\ dst = "dir" /\ Below(tree, to) = {}
             THEN [ok |-> TRUE,
                   fs |-> (tree \ (At(tree, from) \cup Below(tree, from) \cup At(tree, to)))
                            \cup Moved(tree, from, to)]
        ELSE [ok |-> FALSE, fs |-> tree]

\* hide_file without the test for a leading dot.
hide_file_NoDotCheck(tree, p) ==
    IF FileName(p) = NoFileName THEN [ok |-> FALSE, fs |-> tree]
    ELSE IF to_str(FileName(p)) = None THEN [ok |-> FALSE, fs |-> tree]
    ELSE rename(tree, p, Append(Parent(p), <<".">> \o FileName(p)))

\* hide_file for platforms other than Windows (lines 406-438).
hide_file(tree, p) ==
    IF FileName(p) = NoFileName THEN [ok |-> FALSE, fs |-> tree]
    ELSE IF to_str(FileName(p)) = None THEN [ok |-> FALSE, fs |-> tree]
    ELSE IF Head(FileName(p)) = "." THEN [ok |-> TRUE, fs |-> tree]
    ELSE rename(tree, p, Append(Parent(p), <<".">> \o FileName(p)))

\* What should_hide_file is asked about p (lines 336-343).
Asked(tree, p, c, a) ==
    should_hide_file([kind |-> KindAt(tree, p), name |-> FileName(p)],
                     c.file_names, c.file_extensions, a.case_sensitive,
                     a.hide_files, a.hide_directories)

\* handle_path calling hide_file in test mode too.
handle_path_AlwaysHides(tree, p, c, a) ==
    IF ~Asked(tree, p, c, a).ok
    THEN [ok |-> FALSE, fs |-> tree, matched |-> FALSE, said |-> FALSE, hid |-> FALSE]
    ELSE IF ~Asked(tree, p, c, a).val
    THEN [ok |-> TRUE, fs |-> tree, matched |-> FALSE, said |-> FALSE, hid |-> FALSE]
    ELSE [ok |-> hide_file(tree, p).ok, fs |-> hide_file(tree, p).fs,
          matched |-> TRUE, said |-> FALSE, hid |-> TRUE]

\* handle_path (lines 327-353): its Result, the file system it leaves,
\* whether the path matched, whether "Would hide file" was printed and
\* whether hide_file was called.
handle_path(tree, p, c, a) ==
    IF ~Asked(tree, p, c, a).ok
    THEN [ok |-> FALSE, fs |-> tree, matched |-> FALSE, said |-> FALSE, hid |-> FALSE]
    ELSE IF ~Asked(tree, p, c, a).val
    THEN [ok |-> TRUE, fs |-> tree, matched |-> FALSE, said |-> FALSE, hid |-> FALSE]
    ELSE IF a.test_mode
    THEN [ok |-> TRUE, fs |-> tree, matched |-> TRUE, said |-> TRUE, hid |-> FALSE]
    ELSE [ok |-> hide_file(tree, p).ok, fs |-> hide_file(tree, p).fs,
          matched |-> TRUE, said |-> FALSE, hid |-> TRUE]

\* The forms of an entry named n in the directory d at the start: absent,
\* a file, an empty directory, a directory holding one file.
Forms(d, n) ==
    LET p == Append(d, n)
    IN  {{},
         {[path |-> p, kind |-> "file", orig |-> p]},
         {[path |-> p, kind |-> "dir", orig |-> p]},
         {[path |-> p, kind |-> "dir", orig |-> p],
          [path |-> Append(p, Plain), kind |-> "file", orig |-> Append(p, Plain)]}}

\* The watch root, a directory.
RootEntry == [path |-> Root, kind |-> "dir", orig |-> Root]

----------------------------------------------------------------------------
(* SpecHide: hide_file called on a path, then called on it again.          *)

ArgsRun ==
    [directories      : {<<"dir">>},
     file_names       : {{}, {Plain}},
     file_extensions  : {{}},
     recursive        : BOOLEAN,
     case_sensitive   : {TRUE},
     test_mode        : BOOLEAN,
     watch            : {TRUE},
     immediate        : {FALSE},
     hide_files       : BOOLEAN,
     hide_directories : BOOLEAN]

\* The directory Root with any of the three names in any form.
HideTrees ==
    {{RootEntry} \cup a \cup d \cup o :
        a \in Forms(Root, Plain), d \in Forms(Root, Dotted), o \in Forms(Root, Other)}

\* The paths hide_file is called on.
HidePaths ==
    {Append(Root, Plain), Append(Root, Dotted), Append(Root, Other),
     <<RootName, Plain, Plain>>, Append(Root, NonUtf8Name), Append(Root, NoFileName)}

InitHide ==
    /\ args \in {a \in ArgsRun : a.file_names = {} /\ a.recursive /\ a.hide_files
                                 /\ a.hide_directories /\ ~a.test_mode}
    /\ pc = "hide_start"
    /\ trace = <<>>
    /\ conf = NotSetUp
    /\ path = NoPath
    /\ result = NoResult
    /\ error_counter = 0
    /\ elapsed = 0
    /\ last = NoLast
    /\ burst = NoBurst
    /\ fs \in HideTrees
    /\ todo = {}
    /\ seen = [NoSeen EXCEPT !.fs0 = fs]
    /\ queue = <<>>

\* hide_file's Result<()>.
HideResult(h) == IF h.ok THEN Ok(TRUE) ELSE Err("hide_file")

HideFirst ==
    /\ pc = "hide_start"
    /\ \E p \in HidePaths :
         /\ path' = p
         /\ fs' = hide_file(fs, p).fs
         /\ result' = HideResult(hide_file(fs, p))
    /\ pc' = "hide_once"
    /\ seen' = [seen EXCEPT !.fs1 = fs']
    /\ UNCHANGED <<args, trace, conf, error_counter, elapsed, last, burst, todo, queue>>

HideAgain ==
    /\ pc = "hide_once"
    /\ fs' = hide_file(fs, path).fs
    /\ result' = HideResult(hide_file(fs, path))
    /\ pc' = "hide_twice"
    /\ UNCHANGED <<args, trace, conf, path, error_counter, elapsed, last, burst, todo, seen, queue>>

NextHide == HideFirst \/ HideAgain

SpecHide == InitHide /\ [][NextHide]_vars

----------------------------------------------------------------------------
(* SpecRun: the immediate scan of the watch root, then the watch loop,     *)
(* both over the file system.                                              *)

\* The directory Root with the names Plain and Dotted in any form.
RunTrees ==
    {{RootEntry} \cup a \cup d : a \in Forms(Root, Plain), d \in Forms(Root, Dotted)}

\* The paths the events of the watcher carry.
EventPaths == {PlainPath, DottedPath, Append(PlainPath, Plain)}

\* The walk of lines 165-169: WalkDir::new(directory) yields the entries
\* of every depth from 0, the directory itself, on;
\* .min_depth(1).max_depth(1) yields those of depth 1 only.
Yields(recursive, depth) == recursive \/ depth = 1
\* Whether the walk reads the entries of a directory found at depth.
Descends(recursive, depth) == recursive \/ depth = 0

\* The walker opening the directory p found at depth: its entries, each
\* with the kind read_dir reports, or the error of read_dir, which the
\* walker yields in their place. The directory is opened before the walker
\* yields its entry, and its entries keep the path it was opened with. The
\* entries are those present when the directory is opened (a directory of
\* this size is read in one call).
read_dir(tree, p, depth) ==
    IF KindAt(tree, p) = "dir"
    THEN {[path |-> n.path, kind |-> n.kind, depth |-> depth + 1] : n \in Children(tree, p)}
    ELSE {[path |-> p, kind |-> "err", depth |-> depth + 1]}

\* The walker yields depth first: the next item is one of the deepest.
Deepest(items) == {i \in items : \A j \in items : j.depth <= i.depth}

\* The loop body ending the walk at the first error.
Remaining_StopOnError(items, e, ok) == IF ok THEN items \ {e} ELSE {}

\* What is left to walk after the loop body has run for the item e
\* (lines 172-195: continue after an Err entry, eprintln after an error of
\* handle_path).
Remaining(items, e, ok) == items \ {e}

InitRun ==
    /\ args \in ArgsRun
    /\ pc = "scan_start"
    /\ trace = <<"setup">>
    /\ conf = setup(args.file_names, args.file_extensions, args.case_sensitive)
    /\ path = NoPath
    /\ result = NoResult
    /\ error_counter = 0
    /\ elapsed = 0
    /\ last = NoLast
    /\ burst = NoBurst
    /\ fs \in RunTrees
    /\ todo = {}
    /\ seen = [NoSeen EXCEPT !.fs0 = fs]
    /\ queue = <<>>

\* immediate_mode, lines 164-169: the walk of the watch root starts with
\* the root itself, at depth 0.
ScanStart ==
    /\ pc = "scan_start"
    /\ pc' = "scan"
    /\ todo' = {[path |-> Root, kind |-> "dir", depth |-> 0]}
    /\ seen' = [seen EXCEPT !.produced = IF Yields(args.recursive, 0) THEN {Root} ELSE {}]
    /\ UNCHANGED <<args, trace, conf, path, result, error_counter, elapsed, last, burst, fs, queue>>

\* What handle_path did for the path p.
Called(p, h) ==
    [path |-> p, matched |-> h.matched, said |-> h.said, hid |-> h.hid, ok |-> h.ok]

\* One step of the walker and, when it yields, one run of the loop body
\* (lines 170-196).
ScanEntry ==
    /\ pc = "scan"
    /\ \E e \in Deepest(todo) :
         LET opened == IF e.kind = "dir" /\ Descends(args.recursive, e.depth)
                       THEN read_dir(fs, e.path, e.depth)
                       ELSE {}
             handled == e.kind # "err" /\ Yields(args.recursive, e.depth)
             h == IF handled
                  THEN handle_path(fs, e.path, conf, args)
                  ELSE [ok |-> e.kind # "err", fs |-> fs, matched |-> FALSE,
                        said |-> FALSE, hid |-> FALSE]
         IN  /\ fs' = h.fs
             /\ todo' = Remaining(todo, e, h.ok) \cup opened
             /\ seen' = [seen EXCEPT
                    !.produced = @ \cup {i.path : i \in {j \in opened :
                                    j.kind # "err" /\ Yields(args.recursive, j.depth)}},
                    !.evaluated = IF handled THEN @ \cup {e.path} ELSE @,
                    !.failed = @ \/ ~h.ok,
                    !.after_failure = @ \/ (seen.failed /\ handled),
                    !.call = IF handled THEN Called(e.path, h) ELSE @]
    /\ UNCHANGED <<args, pc, trace, conf, path, result, error_counter, elapsed, last, burst, queue>>

\* The walk is over: immediate_mode returns and main enters watch_mode
\* (lines 123-134).
ScanDone ==
    /\ pc = "scan"
    /\ todo = {}
    /\ pc' = "watch_loop"
    /\ trace' = <<"setup", "immediate_mode", "watch_mode">>
    /\ UNCHANGED <<args, conf, path, result, error_counter, elapsed, last, burst>>
    /\ UNCHANGED fsvars

\* One iteration of the loop of watch_mode (lines 240-323), handle_path
\* acting on the file system.
RunIteration ==
    \E ev \in Received :
      \E p \in (IF HandleResults(ev) = {"none"} THEN {NoFileName} ELSE EventPaths) :
        LET handled == HandleResults(ev) # {"none"}
            h == IF handled
                 THEN handle_path(fs, p, conf, args)
                 ELSE [ok |-> TRUE, fs |-> fs, matched |-> FALSE,
                       said |-> FALSE, hid |-> FALSE]
            res == IF ~handled THEN "none" ELSE IF h.ok THEN "ok" ELSE "err"
        IN  /\ Iterate(ev, res)
            /\ fs' = h.fs
            /\ seen' = [seen EXCEPT !.call = IF handled THEN Called(p, h) ELSE @]
            /\ UNCHANGED <<args, trace, conf, path, result, last, burst, todo, queue>>

NextRun == ScanStart \/ ScanEntry \/ ScanDone \/ RunIteration \/ ChannelBroken

SpecRun == InitRun /\ [][NextRun]_vars

----------------------------------------------------------------------------
(* SpecFeed: the watch loop receiving, through the channel, the events of  *)
(* what others do below the watch root and of its own renames.             *)

\* The path hide_file renames p to (lines 429-432).
HiddenPath(p) == Append(Parent(p), <<".">> \o FileName(p))

\* An event in the channel: its kind, its paths, and whether it reports a
\* rename made by hide_file.
Sent(kind, paths, own) == [kind |-> kind, paths |-> paths, own |-> own]

\* The events a watcher sends for the rename of from to to, by the way it
\* observes renames: the two halves and then the pair; one event of
\* unspecified rename mode for each name, in either order; a removal and a
\* creation.
RenameEvents(from, to, own) ==
    {<<Sent("Modify(Name(From))", <<from>>, own),
       Sent("Modify(Name(To))", <<to>>, own),
       Sent("Modify(Name(Both))", <<from, to>>, own)>>,
     <<Sent("Modify(Name(Any))", <<from>>, own),
       Sent("Modify(Name(Any))", <<to>>, own)>>,
     <<Sent("Modify(Name(Any))", <<to>>, own),
       Sent("Modify(Name(Any))", <<from>>, own)>>,
     <<Sent("Remove", <<from>>, own),
       Sent("Create", <<to>>, own)>>}

\* The kinds of the event a watcher sends for an entry that appears: it
\* was created, or moved in from outside the watch root.
ArrivalKinds == {"Create", "Modify(Name(To))", "Modify(Name(Any))"}

\* The entry that makes the k-th arrival.
Arrival(k) == [i \in 1..k |-> NonUtf8Name]

\* The entry at p, which exists.
EntryAt(tree, p) == CHOOSE n \in At(tree, p) : TRUE

InitFeed ==
    /\ args \in {a \in ArgsRun : a.recursive /\ a.hide_files}
    /\ pc = "watch_loop"
    /\ trace = <<"setup", "watch_mode">>
    /\ conf = setup(args.file_names, args.file_extensions, args.case_sensitive)
    /\ path = NoPath
    /\ result = NoResult
    /\ error_counter = 0
    /\ elapsed = 0
    /\ last = NoLast
    /\ burst = NoBurst
    /\ fs \in RunTrees
    /\ todo = {}
    /\ seen = [NoSeen EXCEPT !.fs0 = fs]
    /\ queue = <<>>

\* Something else creates the entry n in the watch root, or moves it in.
ExtArrive ==
    /\ pc = "watch_loop"
    /\ seen.arrivals < MaxExternal
    /\ \E n \in {Plain, Dotted}, k \in {"file", "dir"}, kind \in ArrivalKinds :
         /\ At(fs, Append(Root, n)) = {}
         /\ fs' = fs \cup {[path |-> Append(Root, n), kind |-> k,
                            orig |-> Arrival(seen.arrivals + 1)]}
         /\ queue' = Append(queue, Sent(kind, <<Append(Root, n)>>, FALSE))
    /\ seen' = [seen EXCEPT !.arrivals = @ + 1]
    /\ UNCHANGED <<args, pc, trace, conf, path, result, error_counter, elapsed, last, burst, todo>>

\* Something else gives the hidden entry of the watch root its name back.
ExtUnhide ==
    /\ pc = "watch_loop"
    /\ seen.arrivals < MaxExternal
    /\ rename(fs, DottedPath, PlainPath).ok
    /\ fs' = rename(fs, DottedPath, PlainPath).fs
    /\ \E out \in RenameEvents(DottedPath, PlainPath, FALSE) : queue' = queue \o out
    /\ seen' = [seen EXCEPT !.arrivals = @ + 1,
                            !.renamed = @ \ {EntryAt(fs, DottedPath).orig}]
    /\ UNCHANGED <<args, pc, trace, conf, path, result, error_counter, elapsed, last, burst, todo>>

\* The event is one of the program's own that C21 names: the From half of
\* its rename, or an event whose last path has a name with a leading dot.
OwnListed(e) ==
    /\ e.own
    /\ \/ e.kind = "Modify(Name(From))"
       \/ Head(FileName(e.paths[Len(e.paths)])) = "."

\* One iteration of the loop of watch_mode (lines 240-323) on the first
\* event of the channel; the watcher sends the events of a rename that
\* hide_file made.
FeedIteration ==
    /\ queue # <<>>
    /\ LET e == Head(queue)
           ev == [kind |-> e.kind, npaths |-> Len(e.paths)]
           handled == HandleResults(ev) # {"none"}
           p == IF handled THEN e.paths[relevant_path(ev)] ELSE Root
           h == IF handled
                THEN handle_path(fs, p, conf, args)
                ELSE [ok |-> TRUE, fs |-> fs, matched |-> FALSE,
                      said |-> FALSE, hid |-> FALSE]
           res == IF ~handled THEN "none" ELSE IF h.ok THEN "ok" ELSE "err"
           moved == h.fs # fs
           id == IF moved THEN EntryAt(fs, p).orig ELSE <<>>
       IN  /\ Iterate(ev, res)
           /\ fs' = h.fs
           /\ \E out \in (IF moved THEN RenameEvents(p, HiddenPath(p), TRUE) ELSE {<<>>}) :
                queue' = Tail(queue) \o out
           /\ seen' = [seen EXCEPT
                  !.call = IF handled THEN Called(p, h) ELSE @,
                  !.renamed = IF moved THEN @ \cup {id} ELSE @,
                  !.again = @ \/ (moved /\ id \in seen.renamed),
                  !.own_moved = @ \/ (moved /\ OwnListed(e)),
                  !.quiet_moved = @ \/ (moved /\ \A i \in DOMAIN queue : queue[i].own)]
    /\ UNCHANGED <<args, trace, conf, path, result, last, burst, todo>>

NextFeed == ExtArrive \/ ExtUnhide \/ FeedIteration \/ ChannelBroken

SpecFeed == InitFeed /\ [][NextFeed]_vars

----------------------------------------------------------------------------
(* The claims about main, under SpecMain.                                  *)

Range(f) == {f[i] : i \in DOMAIN f}

PastModeCheck == pc \notin {"main_setup", "main_modes"}

PastImmediateStep ==
    \/ pc \in {"main_watch", "exit_ok", "watch_loop"}
    \/ pc = "exit_err" /\ "watch_error" \in Range(trace)

\* C1 as claimed: with valid directories, the configuration is rejected,
\* before any scan or watch, exactly when the watch flag and the immediate
\* flag are both false.
C1_RejectedIffBothDisabled ==
    (validate_directories(args.directories).ok /\ PastModeCheck)
        => /\ ("modes_error" \in Range(trace))
                <=> (~args.watch /\ ~args.immediate)
           /\ ("modes_error" \in Range(trace))
                => (pc = "exit_err" /\ trace = <<"setup", "modes_error">>)

\* C2 as claimed: the immediate scan has run exactly when the immediate flag
\* is true, and with both flags it ran before watch mode started.
C2_ImmediateIffFlag ==
    PastImmediateStep
        => /\ ("immediate_mode" \in Range(trace)) <=> args.immediate
           /\ (args.watch /\ args.immediate /\ pc = "watch_loop")
                => trace = <<"setup", "immediate_mode", "watch_mode">>

----------------------------------------------------------------------------
(* The claims about the watch loop, under SpecWatch and SpecBurst.         *)

\* An iteration has just ended.
IterationEnded == last.kind # "none"

\* The window duration W, in ticks.
WindowTicks == ERROR_TIME_LIMIT * TicksPerSec

\* C3 as claimed: at the end of an iteration the breaker trips exactly when
\* the error count is at least ERROR_LIMIT and the time since the window
\* start is at most ERROR_TIME_LIMIT seconds; never when it is longer.
C3_TripsIffWithinWindow ==
    IterationEnded
        => (pc = "tripped"
              <=> (/\ last.count_at_check >= ERROR_LIMIT
                   /\ last.at_check <= WindowTicks))

\* C4 as claimed: ERROR_LIMIT errors delivered within two seconds trip the
\* breaker, however old the error window is when the burst begins.
C4_BurstTrips ==
    burst.n >= ERROR_LIMIT => pc = "tripped"

\* C5 as claimed: when an iteration ends without tripping and the time since
\* the window start is longer than ERROR_TIME_LIMIT seconds, the count is
\* zero and the window has restarted.
C5_ResetWhenWindowOver ==
    (IterationEnded /\ pc = "watch_loop" /\ last.at_check > WindowTicks)
        => (error_counter = 0 /\ elapsed = 0)

RenameKindsNotFrom ==
    {"Modify(Name(Any))", "Modify(Name(To))", "Modify(Name(Both))",
     "Modify(Name(Other))"}

SkippedKinds ==
    {"Modify(Name(From))", "Any", "Access", "Modify(Any)", "Modify(Data)",
     "Modify(Metadata)", "Modify(Other)", "Remove", "Other"}

\* C6: the path handed to handle_path is the first path of a create event;
\* of a rename event that is not the From half, the second path when it
\* carries two or more and its only path when it carries one; a From half
\* and every other kind of event hands over no path and leaves the error
\* count as it was.
C6_Classifier ==
    IterationEnded
        => /\ (last.kind = "Create" /\ last.npaths >= 1) => last.handled = 1
           /\ (last.kind \in RenameKindsNotFrom /\ last.npaths >= 2)
                => last.handled = 2
           /\ (last.kind \in RenameKindsNotFrom /\ last.npaths = 1)
                => last.handled = 1
           /\ last.kind \in SkippedKinds
                => /\ last.handled = 0
                   /\ last.res = "none"
                   /\ last.count_at_check = last.count_before
                   /\ (elapsed # 0 => error_counter = last.count_before)

\* C6 witness: a rename event carrying the old and the new path has had its
\* second path handled.
C6_Witness ==
    /\ last.kind = "Modify(Name(Both))"
    /\ last.npaths = 2
    /\ last.handled = 2
    /\ last.res = "ok"

----------------------------------------------------------------------------
(* The matcher's claims, under SpecMatch.                                  *)

Checked == pc = "match_done"

\* The name of the checked path can be read as a string.
ReadableName == path.name # NoFileName /\ to_str(path.name) # None

EqualUpToCase(x, y) == to_lowercase(x) = to_lowercase(y)

\* The directory name as line 573-577 looks it up in the name filters.
LookedUpDirName ==
    IF args.case_sensitive THEN path.name ELSE to_lowercase(path.name)

\* C7: with both filter sets empty, should_hide_file returns Ok(true) for
\* every path: a file, a directory, another kind of entry, a path whose
\* metadata cannot be read, whatever the enabled kinds.
C7_EmptyFiltersHideAll ==
    (Checked /\ conf.file_names = {} /\ conf.file_extensions = {})
        => result = Ok(TRUE)

\* C7 witness: a checked directory while directory hiding is off, and a
\* checked path without metadata, both answered true.
C7_Witness ==
    /\ Checked
    /\ conf.file_names = {} /\ conf.file_extensions = {}
    /\ \/ path.kind = "dir" /\ ~args.hide_directories
       \/ path.kind = "missing"
    /\ result = Ok(TRUE)

\* C8 as claimed: without case_sensitive, a file or directory whose name
\* equals a supplied name filter up to letter case, and a file whose
\* extension equals a supplied extension filter up to letter case, is a
\* match.
C8_CaseInsensitiveMatches ==
    (/\ Checked
     /\ ~args.case_sensitive
     /\ ReadableName
     /\ \/ /\ path.kind = "file" /\ args.hide_files
           /\ \/ \E f \in args.file_names : EqualUpToCase(f, path.name)
              \/ /\ extension(path.name) # None
                 /\ \E x \in args.file_extensions :
                        EqualUpToCase(x, extension(path.name))
        \/ /\ path.kind = "dir" /\ args.hide_directories
           /\ \E f \in args.file_names : EqualUpToCase(f, path.name))
        => result = Ok(TRUE)

\* C9 as claimed: with case_sensitive, a directory matches exactly when its
\* name is one of the name filters as supplied, and a file whose name is one
\* of the supplied name filters matches.
C9_CaseSensitiveExact ==
    (/\ Checked
     /\ args.case_sensitive
     /\ ReadableName
     /\ ~BothEmpty(args.file_names, args.file_extensions))
        => /\ (path.kind = "dir" /\ args.hide_directories)
                => (result = Ok(TRUE) <=> path.name \in args.file_names)
           /\ (path.kind = "file" /\ args.hide_files
                /\ path.name \in args.file_names)
                => result = Ok(TRUE)

\* C10 as claimed: a directory whose name is not in the name filters is
\* answered false, whatever the extension filters hold.
C10_DirNeverByExtension ==
    (/\ Checked
     /\ path.kind = "dir"
     /\ ReadableName
     /\ LookedUpDirName \notin conf.file_names)
        => result = Ok(FALSE)

\* C10 amended: a directory whose name is not in the name filters is
\* answered false whatever the extension filters hold, unless both filter
\* sets are empty (then the first rule answers true).
C10_DirNeverByExtensionAmended ==
    (/\ Checked
     /\ path.kind = "dir"
     /\ ReadableName
     /\ LookedUpDirName \notin conf.file_names
     /\ ~BothEmpty(conf.file_names, conf.file_extensions))
        => result = Ok(FALSE)

\* C10 witness: the directory "a" checked against the extension filter
\* {"a"} and no name filter, with directory hiding on, is answered false.
C10_Witness ==
    /\ Checked
    /\ path = [kind |-> "dir", name |-> <<"a">>]
    /\ args.hide_directories
    /\ conf.file_names = {}
    /\ conf.file_extensions = {<<"a">>}
    /\ result = Ok(FALSE)

\* C11: for a file, with file hiding on and a filter present, a name that
\* is not among the name filters and has no extension is answered with an
\* error, not with false; a name that is among the name filters is answered
\* true, whether or not it has an extension.
C11_NoExtensionIsError ==
    (/\ Checked
     /\ path.kind = "file"
     /\ args.hide_files
     /\ ReadableName
     /\ ~BothEmpty(conf.file_names, conf.file_extensions))
        => /\ (path.name \notin conf.file_names /\ extension(path.name) = None)
                => (~result.ok /\ result.err = "extension")
           /\ path.name \in conf.file_names => result = Ok(TRUE)

\* C11 witness: the file "a", which has no extension, checked against the
\* name filter {"A"} in case-insensitive mode, is answered with the
\* extension error.
C11_Witness ==
    /\ Checked
    /\ path = [kind |-> "file", name |-> <<"a">>]
    /\ args.hide_files
    /\ conf.file_names = {<<"A">>}
    /\ result = Err("extension")

----------------------------------------------------------------------------
(* Further claims about the watch loop, under SpecWatch.                   *)

\* An iteration has just ended and the loop has not gone on to a receive
\* that failed (ChannelBroken is the receive of the following iteration).
JustEnded == IterationEnded /\ pc \in {"watch_loop", "tripped"}

\* The iteration that has just ended executed error_counter += 1.
Counted == last.count_at_check = last.count_before + 1

\* The iteration that has just ended reset the counter and the timer.
WasReset == JustEnded /\ pc = "watch_loop" /\ elapsed = 0 /\ last.at_check > 0

\* C17: an iteration that counts no error (the event was handled, or
\* skipped), ending while the window is at most ERROR_TIME_LIMIT seconds
\* old, leaves the count and the window start as they were; a reset happens
\* only when the window is older than that.
C17_SuccessKeepsWindow ==
    /\ (JustEnded /\ ~Counted /\ last.at_check <= WindowTicks)
          => /\ pc = "watch_loop"
             /\ error_counter = last.count_before
             /\ elapsed = last.at_check
    /\ WasReset => last.at_check > WindowTicks

\* C17 witness: a create event handled without error, five seconds into a
\* window that holds errors.
C17_Witness ==
    /\ last.kind = "Create" /\ last.res = "ok"
    /\ last.at_check = WindowTicks
    /\ last.count_before > 0
    /\ error_counter = last.count_before
    /\ elapsed = WindowTicks

\* The iteration that has just ended is one of the three cases that count:
\* a create or non-From rename event without a path, an error delivered by
\* the watcher, a failure of handle_path.
ShouldCount ==
    \/ last.kind \in ({"Create"} \cup RenameKindsNotFrom) /\ last.npaths = 0
    \/ last.kind = "Err"
    \/ last.res = "err"

\* C18: an iteration raises the error count by exactly one in those three
\* cases and leaves it in every other; after counting, the loop goes on
\* with the next event.
C18_CountsByOne ==
    JustEnded
        => /\ ShouldCount => last.count_at_check = last.count_before + 1
           /\ ~ShouldCount => last.count_at_check = last.count_before
           /\ ShouldCount => pc = "watch_loop"

\* C18, amended: an iteration raises the error count by exactly one in
\* those three cases and leaves it in every other; after counting, the loop
\* goes on with the next event (the counter holding the raised count unless
\* the window was reset) as long as the raised count is below ERROR_LIMIT.
C18_CountsByOneAmended ==
    JustEnded
        => /\ ShouldCount => last.count_at_check = last.count_before + 1
           /\ ~ShouldCount => last.count_at_check = last.count_before
           /\ (ShouldCount /\ last.count_at_check < ERROR_LIMIT)
                => /\ pc = "watch_loop"
                   /\ ~WasReset => error_counter = last.count_before + 1

\* C18 witness: a rename event without a path has been counted and the
\* loop goes on.
C18_Witness ==
    /\ last.kind = "Modify(Name(To))" /\ last.npaths = 0
    /\ last.count_before = 1
    /\ error_counter = 2
    /\ pc = "watch_loop"

----------------------------------------------------------------------------
(* A further claim about main, under SpecMain.                             *)

\* C15: when some directory argument names nothing or names something
\* that is not a directory, setup fails and main exits with that error
\* having taken no other step (no filter sets, no scan, no watch), whatever
\* the other directory arguments name.
C15_BadRootIsFatal ==
    (/\ pc # "main_setup"
     /\ \E i \in DOMAIN args.directories : args.directories[i] \in {"missing", "file"})
        => /\ pc = "exit_err"
           /\ trace = <<"setup_error">>
           /\ conf = NotSetUp

\* C15 witness: a valid directory followed by a missing one; main has
\* exited with the setup error.
C15_Witness ==
    /\ args.directories = <<"dir", "missing">>
    /\ pc = "exit_err"
    /\ trace = <<"setup_error">>

----------------------------------------------------------------------------
(* The claims about hide_file, under SpecHide.                             *)

\* hide_file has been called once, on the existing entry Plain of Root.
HidPlain == pc = "hide_once" /\ path = PlainPath /\ At(seen.fs0, PlainPath) # {}

\* C13: after hide_file on the entry "a" of the directory D, D has an
\* entry ".a", and every entry that D had besides "a" is still there, the
\* same entry under the same name, whatever D held before.
C13_HideChangesOnlyTheEntry ==
    HidPlain
        => /\ At(fs, DottedPath) # {}
           /\ \A n \in Children(seen.fs0, Root) : n.path # PlainPath => n \in fs

\* C14: a second call of hide_file on the same path leaves the file system
\* as the first call left it; a call on a path whose name starts with a
\* dot succeeds and leaves the file system as it was.
C14_HideIdempotent ==
    /\ pc = "hide_twice" => fs = seen.fs1
    /\ (pc \in {"hide_once", "hide_twice"} /\ path = DottedPath)
          => (result = Ok(TRUE) /\ fs = seen.fs0)

\* C14 witness: hide_file has been called twice on the entry Plain, the
\* first call renamed it, and a dotted entry was there before.
C14_Witness ==
    /\ pc = "hide_twice"
    /\ path = PlainPath
    /\ At(seen.fs0, DottedPath) # {}
    /\ seen.fs1 # seen.fs0
    /\ fs = seen.fs1

----------------------------------------------------------------------------
(* The claims about the scan and the loop, under SpecRun.                  *)

\* The scan is over.
Scanned == pc \notin {"scan_start", "scan"}

\* C12: in test mode hide_file is never called, by the scan or by the
\* loop: a path that matches gets the "Would hide file" message and
\* nothing else, and the file system stays as it was at the start.
C12_DryRunHidesNothing ==
    args.test_mode
        => /\ fs = seen.fs0
           /\ ~seen.call.hid
           /\ seen.call.matched <=> seen.call.said

\* C12 witness: in test mode, without the recursive flag, the loop has
\* printed the message for a path two levels below the root, after a scan
\* that evaluated an entry.
C12_Witness ==
    /\ args.test_mode
    /\ ~args.recursive
    /\ pc = "watch_loop"
    /\ seen.evaluated # {}
    /\ seen.call.path = Append(PlainPath, Plain)
    /\ seen.call.said

\* The paths the walker has produced and not yet yielded to the loop body.
Pending ==
    {i.path : i \in {j \in todo : j.kind # "err" /\ Yields(args.recursive, j.depth)}}

\* C16: the loop of watch_mode ends only by the broken channel or with
\* ERROR_LIMIT errors counted, so that after fewer errors it is still
\* receiving; and in the scan every entry the walker has produced has been
\* evaluated or is still to come, whatever errors there were, and all
\* have been evaluated when the scan is over.
C16_OnlyFatalEnds ==
    /\ Scanned => pc \in {"watch_loop", "tripped", "channel_broken"}
    /\ pc = "tripped" => error_counter >= ERROR_LIMIT
    /\ pc = "scan" => seen.produced = seen.evaluated \cup Pending
    /\ Scanned => seen.produced = seen.evaluated

\* C16 witness: the scan went on to evaluate an entry after an error, and
\* the loop, having counted an error, received and counted another.
C16_Witness ==
    /\ seen.after_failure
    /\ pc = "watch_loop"
    /\ error_counter = 2

\* The paths of a set of entries.
PathsOf(entries) == {n.path : n \in entries}

\* C19: the scan evaluates the entries below the watch root only: the
\* entries of the root when the recursive flag is not set, everything
\* below the root when it is set, and never the root itself.
C19_ScanBelowRoot ==
    Scanned
        => /\ Root \notin seen.evaluated
           /\ ~args.recursive => seen.evaluated = PathsOf(Children(seen.fs0, Root))
           /\ args.recursive => seen.evaluated = PathsOf(Below(seen.fs0, Root))

----------------------------------------------------------------------------
(* The claim about the loop and its own renames, under SpecFeed.           *)

\* C21: handling the events of the program's own rename, the From half
\* and the events that carry the dot-prefixed path, never changes the file
\* system; no entry is renamed by the program a second time unless it
\* arrived anew in between; and no event changes the file system when
\* every event still in the channel is one of the program's own.
C21_OwnRenamesSettle ==
    /\ ~seen.own_moved
    /\ ~seen.again
    /\ ~seen.quiet_moved

\* C21 witness: the one entry that arrived was renamed by the program, the
\* events of that rename have all been received, the last of them led to a
\* call of hide_file on the dot-prefixed path, and the entry is still
\* where the rename put it.
C21_Witness ==
    /\ pc = "watch_loop"
    /\ seen.arrivals = 1
    /\ Arrival(1) \in seen.renamed
    /\ queue = <<>>
    /\ seen.call = [path |-> DottedPath, matched |-> TRUE, said |-> FALSE, hid |-> TRUE, ok |-> TRUE]
    /\ At(fs, DottedPath) # {}
    /\ EntryAt(fs, DottedPath).orig = Arrival(1)

====
